---- MODULE Spec2Model ----
(***************************************************************************)
(* Shared-buffer hashing pipeline of node_hash_comparison:                 *)
(*   - the reader worker   (src/worker-reader.js)      : the producer,     *)
(*   - the hasher worker   (src/unnamed/part_000)      : the consumer,     *)
(*   - the main thread     (src/unnamed/part_001,                          *)
(*     testWorkerSharedHashPerformance / measurePerformance) : supervisor. *)
(* Every Atomics operation on the shared words is one step of its agent.   *)
(* A blocking Atomics.wait is two steps: the compare that puts the agent   *)
(* to sleep, and the wake-up (a peer's notify, or the slice timing out).   *)
(* Time is not measured: a sleeping agent's slice may time out at any      *)
(* moment, which covers every relative speed of the two threads.           *)
(***************************************************************************)
EXTENDS Integers, Sequences, FiniteSets, TLC

\* ---------------------------------------------------------------- bounds
\* Longest input file, in bytes.
MaxFileLen == 3
\* Largest chunk size (highWaterMark and buffer capacity) tried.
MaxChunk == 2
\* Reader's wait budget per loop (1000 slices in the source, scaled down).
ReaderMaxWait == 3
\* Reader's EOF loop gives up after more than this many slices (10 in the
\* source, scaled down; stays below ReaderMaxWait as 10 stays below 1000).
ReaderEofPatience == 1
\* Hasher's threshold on its iteration counter (100 in the source, scaled).
HasherRetry == 2
\* Cap of the observation counter of timed-out hasher slices.
MaxSlices == 4
\* Most empty chunks a producer delivers in the runs that try them.
MaxEmptyChunks == 1
\* MAX_ITERATIONS of the runs that reach it (1000000 in the source, scaled
\* down; the files of these runs have up to one chunk more).
ScaledIterations == 3

\* ------------------------------------------------------------- constants
MAX_ITERATIONS == 1000000
READY == 0
DATA_AVAILABLE == 1
EOF == 2

Min(a, b) == IF a < b THEN a ELSE b

\* The input files tried: one per length, byte i holding the value i. No agent
\* ever looks at the value of a byte, so distinct values show any byte that is
\* lost, repeated or moved (0 is what a fresh buffer holds).
Files == {[i \in 1..n |-> i] : n \in 0..MaxFileLen}

VARIABLES
  \* ---- the run's inputs
  file,         \* bytes of the input file
  chunkSize,    \* CHUNK_SIZE: highWaterMark and capacity of the buffer
  algo,         \* algo.name of the run, the hasher's workerData.algo
  maxIter,      \* the value of MAX_ITERATIONS in both workers
  acc,          \* the number finalDigest renders, as its hex digits' values
  \* ---- shared memory
  status,       \* flagView[0]
  length,       \* flagView[1]
  dataView,     \* the shared data buffer
  \* ---- reader worker
  rpc,          \* position in worker-reader.js
  rpos,         \* bytes of the file the stream has delivered so far
  rchunk,       \* the chunk of the current loop iteration
  rIterations,  \* iterations
  waitCount,    \* waitCount of the loop in progress
  rExpected,    \* value loaded for the third argument of Atomics.wait
  rCause,       \* why the reader left its normal path ("none" if it did not)
  rExit,        \* exit code (-1: not exited)
  \* ---- hasher worker
  hpc,          \* position in worker-hasher.js
  hIterations,  \* iterations
  hLen,         \* len
  hashed,       \* bytes fed to hashFn so far, in call order
  digest,       \* <<d>> once finalDigest() was printed, else << >>
  hExit,        \* exit code (-1: not exited)
  hSlices,      \* timed-out slices of the wait in progress (observation)
  \* ---- main thread
  spc,          \* position in testWorkerSharedHashPerformance
  outcome,      \* how the awaited Promise.race settled
  duration,     \* what measurePerformance returned
  row,          \* the row pushed to the result table
  \* ---- events and observations
  hError,       \* the hasher's 'error' event: "none", "raised" or "handled"
  errors,       \* failures reported by spinner.fail, in order
  published,    \* the chunk of the reader's last publish (observation)
  hSeen,        \* lengths the hasher loaded, one per hand-off (observation)
  rStores,      \* values the reader stored into status, in order (observation)
  text          \* <<t>> once finalDigest() rendered the number acc as t

shared == <<status, length, dataView>>
inputs == <<file, chunkSize, algo, maxIter, acc>>
rvars == <<rpc, rpos, rchunk, rIterations, waitCount, rExpected, rCause, rExit>>
hvars == <<hpc, hIterations, hLen, hashed, digest, hExit, hSlices>>
svars == <<spc, outcome, duration, row>>
aux == <<hError, errors, published, hSeen, rStores, text>>
vars == <<inputs, shared, rvars, hvars, svars, aux>>

\* A SharedArrayBuffer is zero-filled when allocated.
Zeros(n) == [i \in 1..n |-> 0]

\* The algorithms of the runs, in the order of the for loop (part_001 16-21).
algorithms == <<"sha256", "xxh64", "xxh3-64", "crc32c">>

\* The names the hasher knows (part_000 lines 15-45).
SupportedAlgorithms == {"sha256", "crc32c", "xxh64", "xxh3-64"}

\* The shared memory, the workers and the main thread before a run's setup.
InitState ==
  /\ status = 0
  /\ length = 0
  /\ dataView = Zeros(chunkSize)
  /\ rpc = "unborn" /\ rpos = 0 /\ rchunk = << >> /\ rIterations = 0
  /\ waitCount = 0 /\ rExpected = 0 /\ rCause = "none" /\ rExit = -1
  /\ hpc = "unborn" /\ hIterations = 0 /\ hLen = 0 /\ hashed = << >>
  /\ digest = << >> /\ hExit = -1 /\ hSlices = 0
  /\ spc = "setup" /\ outcome = "pending" /\ duration = "none" /\ row = "none"
  /\ hError = "none" /\ errors = << >> /\ published = << >> /\ hSeen = << >>
  /\ rStores = << >> /\ text = << >>

\* State of a run before its setup, whatever its algorithm and the value of
\* its digest.
InitRun ==
  /\ file \in Files
  /\ chunkSize \in 1..MaxChunk
  /\ InitState

\* The first run of the for loop. Its digest is not a number (sha256), so
\* acc is not used.
Init == algo = algorithms[1] /\ maxIter = MAX_ITERATIONS /\ acc = << >> /\ InitRun


\* ------------------------------------------------------------ wake-ups
\* Atomics.notify(flagView, 0) by the hasher: a reader asleep in Atomics.wait
\* returns 'ok' and goes back to the condition of the loop it is in.
WakeReader(pc) ==
  CASE pc = "asleep"  -> "wchk"
    [] pc = "easleep" -> "eofchk"
    [] OTHER          -> pc

\* A notify that wakes nobody.
WakeHasher_Lost(pc) == pc

\* Atomics.notify(flagView, 0) by the reader: a hasher asleep in Atomics.wait
\* returns 'ok' and goes back to the condition of its inner loop.
WakeHasher(pc) == IF pc = "asleep" THEN "hchk" ELSE pc

\* ---------------------------------------------------------------- reader
\* The condition without its test of status: the reader does not wait for
\* the buffer to be freed.
ReaderKeepWaiting_NoWait(s, wc) == FALSE /\ wc < ReaderMaxWait

\* Condition of both wait loops (worker-reader.js lines 29 and 58).
ReaderKeepWaiting(s, wc) == s # READY /\ wc < ReaderMaxWait

\* The increment left out.
ReaderBumpWait_Forgotten(wc) == wc

\* waitCount++ (lines 30 and 59).
ReaderBumpWait(wc) == wc + 1

\* The break of the EOF wait loop (line 61).
ReaderForceEof(waitResult, wc) ==
  waitResult = "timed-out" /\ wc > ReaderEofPatience

\* The code the reader exits with (line 82, on every path).
ReaderExitCode == 0

\* A reader without its cap.
ReaderOverCap_Never(it, cap) == FALSE

\* iterations > MAX_ITERATIONS (line 22).
ReaderOverCap(it, cap) == it > cap

\* for await (const chunk of stream): the stream ends, fails, or delivers the
\* next chunk of at most chunkSize bytes (lines 13, 20-28).
ReaderNextChunk ==
  /\ rpc = "next"
  /\ \/ /\ rpos = Len(file)
        /\ rpc' = "eofchk"
        /\ waitCount' = 0
        /\ UNCHANGED <<rpos, rchunk, rIterations, rCause>>
     \/ /\ rpc' = "catch"
        /\ rCause' = "readerr"
        /\ UNCHANGED <<rpos, rchunk, rIterations, waitCount>>
     \/ /\ rpos < Len(file)
        /\ rchunk' = SubSeq(file, rpos + 1, Min(rpos + chunkSize, Len(file)))
        /\ rpos' = Min(rpos + chunkSize, Len(file))
        /\ rIterations' = rIterations + 1
        /\ waitCount' = 0
        /\ IF ReaderOverCap(rIterations + 1, maxIter)
             THEN rpc' = "eofchk" /\ rCause' = "cap"
             ELSE rpc' = "wchk" /\ rCause' = rCause
  /\ UNCHANGED <<rExpected, rExit>>
  /\ UNCHANGED <<aux, inputs, shared, hvars, svars>>

\* A reader that goes on to publish whatever its wait came to.
ReaderWaitExpired_Never(wc) == FALSE

\* The test for the timeout error after the per-chunk wait loop (line 42).
ReaderWaitExpired(wc) == wc >= ReaderMaxWait

\* Condition of the per-chunk wait loop, and the check after it (29-30, 42-44).
ReaderWaitCheck ==
  /\ rpc = "wchk"
  /\ IF ReaderKeepWaiting(status, waitCount)
       THEN /\ waitCount' = ReaderBumpWait(waitCount)
            /\ rpc' = "wload"
            /\ rCause' = rCause
       ELSE /\ waitCount' = waitCount
            /\ IF ReaderWaitExpired(waitCount)
                 THEN rpc' = "catch" /\ rCause' = "timeout"
                 ELSE rpc' = "copy" /\ rCause' = rCause
  /\ UNCHANGED <<rpos, rchunk, rIterations, rExpected, rExit>>
  /\ UNCHANGED <<aux, inputs, shared, hvars, svars>>

\* The load that is the third argument of Atomics.wait (line 31).
ReaderWaitLoad ==
  /\ rpc = "wload"
  /\ rExpected' = status
  /\ rpc' = "wait"
  /\ UNCHANGED <<rpos, rchunk, rIterations, waitCount, rCause, rExit>>
  /\ UNCHANGED <<aux, inputs, shared, hvars, svars>>

\* Atomics.wait (line 31): 'not-equal' at once, or the reader falls asleep.
ReaderWait ==
  /\ rpc = "wait"
  /\ rpc' = IF status # rExpected THEN "wchk" ELSE "asleep"
  /\ UNCHANGED <<rpos, rchunk, rIterations, waitCount, rExpected, rCause, rExit>>
  /\ UNCHANGED <<aux, inputs, shared, hvars, svars>>

\* The 100 ms slice ends without a notify: 'timed-out' (lines 31-32).
ReaderWaitTimeout ==
  /\ rpc = "asleep"
  /\ rpc' = "tchk"
  /\ UNCHANGED <<rpos, rchunk, rIterations, waitCount, rExpected, rCause, rExit>>
  /\ UNCHANGED <<aux, inputs, shared, hvars, svars>>

\* After a timed-out slice: the check for a premature EOF (lines 34-38).
ReaderTimedOutCheck ==
  /\ rpc = "tchk"
  /\ IF status = EOF
       THEN rpc' = "catch" /\ rCause' = "premature"
       ELSE rpc' = "wchk" /\ rCause' = rCause
  /\ UNCHANGED <<rpos, rchunk, rIterations, waitCount, rExpected, rExit>>
  /\ UNCHANGED <<aux, inputs, shared, hvars, svars>>

\* dataView.set(chunk) (line 47).
ReaderCopy ==
  /\ rpc = "copy"
  /\ dataView' = [i \in 1..chunkSize |->
                    IF i <= Len(rchunk) THEN rchunk[i] ELSE dataView[i]]
  /\ rpc' = "setlen"
  /\ UNCHANGED <<status, length>>
  /\ UNCHANGED <<rpos, rchunk, rIterations, waitCount, rExpected, rCause, rExit>>
  /\ UNCHANGED <<aux, inputs, hvars, svars>>

\* The capacity of the buffer stored instead of the length of the chunk.
ReaderChunkLength_Capacity(chunk) == chunkSize

\* chunk.length, the value stored into the length word (line 50).
ReaderChunkLength(chunk) == Len(chunk)

\* Atomics.store(flagView, 1, chunk.length) (line 50).
ReaderStoreLength ==
  /\ rpc = "setlen"
  /\ length' = ReaderChunkLength(rchunk)
  /\ rpc' = "publish"
  /\ UNCHANGED <<status, dataView>>
  /\ UNCHANGED <<rpos, rchunk, rIterations, waitCount, rExpected, rCause, rExit>>
  /\ UNCHANGED <<aux, inputs, hvars, svars>>

\* Atomics.store(flagView, 0, 1) (line 51).
ReaderPublish ==
  /\ rpc = "publish"
  /\ status' = DATA_AVAILABLE
  /\ rpc' = "pnotify"
  /\ published' = rchunk
  /\ rStores' = Append(rStores, DATA_AVAILABLE)
  /\ UNCHANGED <<length, dataView>>
  /\ UNCHANGED <<rpos, rchunk, rIterations, waitCount, rExpected, rCause, rExit>>
  /\ UNCHANGED <<hError, errors, hSeen, text>>
  /\ UNCHANGED <<inputs, hvars, svars>>

\* Atomics.notify(flagView, 0) (line 52), then the next loop iteration.
ReaderPublishNotify ==
  /\ rpc = "pnotify"
  /\ hpc' = WakeHasher(hpc)
  /\ rpc' = "next"
  /\ UNCHANGED <<rpos, rchunk, rIterations, waitCount, rExpected, rCause, rExit>>
  /\ UNCHANGED <<hIterations, hLen, hashed, digest, hExit, hSlices>>
  /\ UNCHANGED <<aux, inputs, shared, svars>>

\* Condition of the EOF wait loop (lines 58-59).
ReaderEofCheck ==
  /\ rpc = "eofchk"
  /\ IF ReaderKeepWaiting(status, waitCount)
       THEN /\ waitCount' = ReaderBumpWait(waitCount)
            /\ rpc' = "eload"
            /\ rCause' = rCause
       ELSE /\ waitCount' = waitCount
            /\ rpc' = "eofstore"
            /\ rCause' = IF status # READY /\ rCause = "none"
                           THEN "forced" ELSE rCause
  /\ UNCHANGED <<rpos, rchunk, rIterations, rExpected, rExit>>
  /\ UNCHANGED <<aux, inputs, shared, hvars, svars>>

\* The load that is the third argument of Atomics.wait (line 60).
ReaderEofLoad ==
  /\ rpc = "eload"
  /\ rExpected' = status
  /\ rpc' = "ewait"
  /\ UNCHANGED <<rpos, rchunk, rIterations, waitCount, rCause, rExit>>
  /\ UNCHANGED <<aux, inputs, shared, hvars, svars>>

\* Atomics.wait (line 60): 'not-equal' at once, or the reader falls asleep.
ReaderEofWait ==
  /\ rpc = "ewait"
  /\ rpc' = IF status # rExpected THEN "eofchk" ELSE "easleep"
  /\ UNCHANGED <<rpos, rchunk, rIterations, waitCount, rExpected, rCause, rExit>>
  /\ UNCHANGED <<aux, inputs, shared, hvars, svars>>

\* The slice ends without a notify: 'timed-out', and the break (lines 60-64).
ReaderEofTimeout ==
  /\ rpc = "easleep"
  /\ IF ReaderForceEof("timed-out", waitCount)
       THEN /\ rpc' = "eofstore"
            /\ rCause' = IF rCause = "none" THEN "forced" ELSE rCause
       ELSE /\ rpc' = "eofchk"
            /\ rCause' = rCause
  /\ UNCHANGED <<rpos, rchunk, rIterations, waitCount, rExpected, rExit>>
  /\ UNCHANGED <<aux, inputs, shared, hvars, svars>>

\* Atomics.store(flagView, 0, 2) (line 68).
ReaderEofStore ==
  /\ rpc = "eofstore"
  /\ status' = EOF
  /\ rpc' = "enotify"
  /\ rStores' = Append(rStores, EOF)
  /\ UNCHANGED <<length, dataView>>
  /\ UNCHANGED <<rpos, rchunk, rIterations, waitCount, rExpected, rCause, rExit>>
  /\ UNCHANGED <<hError, errors, published, hSeen, text>>
  /\ UNCHANGED <<inputs, hvars, svars>>

\* The catch block's Atomics.store(flagView, 0, 2) (lines 71-75).
ReaderCatchStore ==
  /\ rpc = "catch"
  /\ status' = EOF
  /\ rpc' = "enotify"
  /\ rStores' = Append(rStores, EOF)
  /\ UNCHANGED <<length, dataView>>
  /\ UNCHANGED <<rpos, rchunk, rIterations, waitCount, rExpected, rCause, rExit>>
  /\ UNCHANGED <<hError, errors, published, hSeen, text>>
  /\ UNCHANGED <<inputs, hvars, svars>>

\* The notify of line 69 taken for a failure of the try block: the catch
\* block runs after it.
ReaderEofNotify_Retry ==
  /\ rpc = "enotify"
  /\ hpc' = WakeHasher(hpc)
  /\ rpc' = IF Cardinality({i \in 1..Len(rStores) : rStores[i] = EOF}) = 1
              THEN "catch" ELSE "exit"
  /\ UNCHANGED <<rpos, rchunk, rIterations, waitCount, rExpected, rCause, rExit>>
  /\ UNCHANGED <<hIterations, hLen, hashed, digest, hExit, hSlices>>
  /\ UNCHANGED <<aux, inputs, shared, svars>>

\* Atomics.notify(flagView, 0) after either EOF store (lines 69 and 76).
ReaderEofNotify ==
  /\ rpc = "enotify"
  /\ hpc' = WakeHasher(hpc)
  /\ rpc' = "exit"
  /\ UNCHANGED <<rpos, rchunk, rIterations, waitCount, rExpected, rCause, rExit>>
  /\ UNCHANGED <<hIterations, hLen, hashed, digest, hExit, hSlices>>
  /\ UNCHANGED <<aux, inputs, shared, svars>>

\* process.exit(0) (line 82).
ReaderExit ==
  /\ rpc = "exit"
  /\ rExit' = ReaderExitCode
  /\ rpc' = "done"
  /\ UNCHANGED <<rpos, rchunk, rIterations, waitCount, rExpected, rCause>>
  /\ UNCHANGED <<aux, inputs, shared, hvars, svars>>

Reader ==
  \/ ReaderNextChunk \/ ReaderWaitCheck \/ ReaderWaitLoad \/ ReaderWait
  \/ ReaderWaitTimeout \/ ReaderTimedOutCheck \/ ReaderCopy
  \/ ReaderStoreLength \/ ReaderPublish \/ ReaderPublishNotify
  \/ ReaderEofCheck \/ ReaderEofLoad \/ ReaderEofWait \/ ReaderEofTimeout
  \/ ReaderEofStore \/ ReaderCatchStore \/ ReaderEofNotify \/ ReaderExit


\* ---------------------------------------------------------------- hasher
\* The hasher's fatal-timeout test after a timed-out slice (part_000 line 70).
HasherGiveUp(it) == it > HasherRetry

\* A hasher that reports a wait that timed out as a success.
HasherExitCode_Swallowed(why) == IF why = "unknown" THEN 1 ELSE 0

\* The code the hasher ends with: process.exit(0) after the digest (line
\* 110), process.exit(1) on a fatal timeout (line 72), and 1 for the uncaught
\* exception of an unknown algorithm (line 47).
HasherExitCode(why) == IF why = "digest" THEN 0 ELSE 1

\* What the hasher does with the status word before its loop (line 51).
HasherInitialStatus(s) == READY

\* A hasher that answers a chunk with the end-of-file value.
HasherReleaseStatus_Eof(s) == EOF

\* A release that leaves the status word as it is.
HasherReleaseStatus_Kept(s) == s

\* The value the hasher stores to release the buffer (line 98).
HasherReleaseStatus(s) == READY

\* The whole view passed instead of its first len bytes.
HasherChunk_WholeView(view, len) == view

\* The bytes the hasher passes to hashFn: dataView.subarray(0, len) (line 93).
HasherChunk(view, len) == SubSeq(view, 1, Min(len, Len(view)))

\* Algorithm selection, then Atomics.store(flagView, 0, 0) (lines 12-51). An
\* unknown name throws at line 47: the uncaught exception ends the worker
\* with an 'error' event followed by its 'exit' event with code 1.
HasherInit ==
  /\ hpc = "start"
  /\ IF algo \in SupportedAlgorithms
       THEN /\ status' = HasherInitialStatus(status)
            /\ hpc' = "inotify"
            /\ UNCHANGED <<hExit, hError>>
       ELSE /\ hpc' = "done"
            /\ hExit' = HasherExitCode("unknown")
            /\ hError' = "raised"
            /\ UNCHANGED status
  /\ UNCHANGED <<length, dataView>>
  /\ UNCHANGED <<hIterations, hLen, hashed, digest, hSlices>>
  /\ UNCHANGED <<errors, published, hSeen, rStores, text>>
  /\ UNCHANGED <<inputs, rvars, svars>>

\* Atomics.notify(flagView, 0) (line 52).
HasherInitNotify ==
  /\ hpc = "inotify"
  /\ rpc' = WakeReader(rpc)
  /\ hpc' = "loop"
  /\ UNCHANGED <<hIterations, hLen, hashed, digest, hExit, hSlices>>
  /\ UNCHANGED <<rpos, rchunk, rIterations, waitCount, rExpected, rCause, rExit>>
  /\ UNCHANGED <<aux, inputs, shared, svars>>

\* Condition of the hasher's outer loop (line 57).
HasherUnderCap(it, cap) == it < cap

\* while (iterations < MAX_ITERATIONS) { iterations++ (lines 57-62).
HasherLoop ==
  /\ hpc = "loop"
  /\ IF HasherUnderCap(hIterations, maxIter)
       THEN hIterations' = hIterations + 1 /\ hpc' = "hchk"
       ELSE hIterations' = hIterations /\ hpc' = "final"
  /\ hSlices' = 0
  /\ UNCHANGED <<hLen, hashed, digest, hExit>>
  /\ UNCHANGED <<aux, inputs, shared, rvars, svars>>

\* Condition of the inner wait loop (line 64).
HasherCheck ==
  /\ hpc = "hchk"
  /\ hpc' = IF status = READY THEN "hwait" ELSE "hload"
  /\ UNCHANGED <<hIterations, hLen, hashed, digest, hExit, hSlices>>
  /\ UNCHANGED <<aux, inputs, shared, rvars, svars>>

\* Atomics.wait(flagView, 0, 0, 1000) (line 65): 'not-equal' at once, or the
\* hasher falls asleep.
HasherWait ==
  /\ hpc = "hwait"
  /\ hpc' = IF status # READY THEN "hchk" ELSE "asleep"
  /\ UNCHANGED <<hIterations, hLen, hashed, digest, hExit, hSlices>>
  /\ UNCHANGED <<aux, inputs, shared, rvars, svars>>

\* The 1 s slice ends without a notify: 'timed-out' (lines 65-66).
HasherWaitTimeout ==
  /\ hpc = "asleep"
  /\ hpc' = "htchk"
  /\ hSlices' = Min(hSlices + 1, MaxSlices)
  /\ UNCHANGED <<hIterations, hLen, hashed, digest, hExit>>
  /\ UNCHANGED <<aux, inputs, shared, rvars, svars>>

\* After a timed-out slice (lines 68-73): break on EOF, process.exit(1) when
\* the iteration counter is past the threshold, else wait again.
HasherTimedOutCheck ==
  /\ hpc = "htchk"
  /\ IF status = EOF
       THEN hpc' = "hload" /\ hExit' = hExit
       ELSE IF HasherGiveUp(hIterations)
              THEN hpc' = "done" /\ hExit' = HasherExitCode("timeout")
              ELSE hpc' = "hchk" /\ hExit' = hExit
  /\ UNCHANGED <<hIterations, hLen, hashed, digest, hSlices>>
  /\ UNCHANGED <<aux, inputs, shared, rvars, svars>>

\* const status = Atomics.load(flagView, 0) and the two tests (lines 81-88).
HasherLoadStatus ==
  /\ hpc = "hload"
  /\ hpc' = CASE status = EOF            -> "final"
              [] status = DATA_AVAILABLE -> "ldlen"
              [] OTHER                   -> "loop"
  /\ UNCHANGED <<hIterations, hLen, hashed, digest, hExit, hSlices>>
  /\ UNCHANGED <<aux, inputs, shared, rvars, svars>>

\* The release placed inside the block of the test len > 0.
HasherAfterLength_Skip(len) == IF len > 0 THEN "hash" ELSE "loop"

\* if (len > 0) { ... hashFn(chunk) }, then the release (lines 92-98).
HasherAfterLength(len) == IF len > 0 THEN "hash" ELSE "release"

\* const len = Atomics.load(flagView, 1) and the test len > 0 (lines 90-92).
HasherLoadLength ==
  /\ hpc = "ldlen"
  /\ hLen' = length
  /\ hpc' = HasherAfterLength(length)
  /\ hSeen' = Append(hSeen, length)
  /\ UNCHANGED <<hIterations, hashed, digest, hExit, hSlices>>
  /\ UNCHANGED <<hError, errors, published, rStores, text>>
  /\ UNCHANGED <<inputs, shared, rvars, svars>>

\* hashFn(dataView.subarray(0, len)) (lines 93-94).
HasherHash ==
  /\ hpc = "hash"
  /\ hashed' = hashed \o HasherChunk(dataView, hLen)
  /\ hpc' = "release"
  /\ UNCHANGED <<hIterations, hLen, digest, hExit, hSlices>>
  /\ UNCHANGED <<aux, inputs, shared, rvars, svars>>

\* A release that also resets the length word.
HasherRelease_ClearsLength ==
  /\ hpc = "release"
  /\ status' = HasherReleaseStatus(status)
  /\ length' = length - length
  /\ hpc' = "rnotify"
  /\ UNCHANGED dataView
  /\ UNCHANGED <<hIterations, hLen, hashed, digest, hExit, hSlices>>
  /\ UNCHANGED <<aux, inputs, rvars, svars>>

\* Atomics.store(flagView, 0, 0) (line 98).
HasherRelease ==
  /\ hpc = "release"
  /\ status' = HasherReleaseStatus(status)
  /\ hpc' = "rnotify"
  /\ UNCHANGED <<length, dataView>>
  /\ UNCHANGED <<hIterations, hLen, hashed, digest, hExit, hSlices>>
  /\ UNCHANGED <<aux, inputs, rvars, svars>>

\* Atomics.notify(flagView, 0) (line 99), then the next loop iteration.
HasherReleaseNotify ==
  /\ hpc = "rnotify"
  /\ rpc' = WakeReader(rpc)
  /\ hpc' = "loop"
  /\ UNCHANGED <<hIterations, hLen, hashed, digest, hExit, hSlices>>
  /\ UNCHANGED <<rpos, rchunk, rIterations, waitCount, rExpected, rCause, rExit>>
  /\ UNCHANGED <<aux, inputs, shared, svars>>

\* finalDigest() called where the loop sees EOF, without leaving the loop.
HasherFinal_InLoop ==
  /\ hpc = "final"
  /\ digest' = <<hashed>>
  /\ hpc' = "loop"
  /\ UNCHANGED <<hIterations, hLen, hashed, hExit, hSlices>>
  /\ UNCHANGED <<aux, inputs, shared, rvars, svars>>

\* console.log(... finalDigest()) and process.exit(0) (lines 103-110).
HasherFinal ==
  /\ hpc = "final"
  /\ digest' = <<hashed>>
  /\ hExit' = HasherExitCode("digest")
  /\ hpc' = "done"
  /\ UNCHANGED <<hIterations, hLen, hashed, hSlices>>
  /\ UNCHANGED <<aux, inputs, shared, rvars, svars>>

Hasher ==
  \/ HasherInit \/ HasherInitNotify \/ HasherLoop \/ HasherCheck
  \/ HasherWait \/ HasherWaitTimeout \/ HasherTimedOutCheck
  \/ HasherLoadStatus \/ HasherLoadLength \/ HasherHash
  \/ HasherRelease \/ HasherReleaseNotify \/ HasherFinal

\* ----------------------------------------------------------- main thread
\* What measurePerformance returns for a testFunc that settled as `o`: its
\* catch turns a rejection into the return value null (part_001 lines 174-186).
MeasuredDuration(o) == IF o = "resolved" THEN "seconds" ELSE "null"

\* The row pushed after measurePerformance returned `d` (lines 147-164): the
\* catch of line 157 needs a throw, and measurePerformance never throws;
\* fileSizeGB / null is Infinity or NaN, and toFixed accepts both.
TableRow(d) == "ok"

\* Workers that are no longer running.
Stopped == {"done", "killed"}

\* A terminate that leaves a running worker alone.
TerminateWorker_Skipped(pc) == pc

\* worker.terminate() (lines 106, 111, 135-140): a running worker is stopped
\* wherever it is, asleep in Atomics.wait included.
TerminateWorker(pc) == IF pc \in Stopped THEN pc ELSE "killed"

\* A timer that is never armed.
TimerArmed_Never(pc) == FALSE

\* The 30 s timer is armed when the main thread awaits the race and cleared
\* after it (lines 115-119, 128, 132).
TimerArmed(pc) == pc = "await"

\* A failure that is swallowed without a report.
MeasureReports_Silent(o) == << >>

\* spinner.fail in the catch of measurePerformance (line 183): the message of
\* the rejection that settled the race.
MeasureReports(o) == IF o = "resolved" THEN << >> ELSE <<o>>

\* spinner.fail in the catch of line 157-158, entered for a row "err" only.
RecordReports(r) == IF r = "err" THEN <<"err">> ELSE << >>

\* A buffer kept from one run to the next.
FreshBuffer_Reused(view, n) == view

\* new SharedArrayBuffer(CHUNK_SIZE) (line 60): n zero bytes, whatever the
\* buffer of the run before holds.
FreshBuffer(view, n) == Zeros(n)

\* The shared memory of the run: new SharedArrayBuffers, then
\* Atomics.store(flagView, 0, 0); Atomics.store(flagView, 1, 0) (lines 59-66).
SupSetup ==
  /\ spc = "setup"
  /\ dataView' = FreshBuffer(dataView, chunkSize)
  /\ status' = READY
  /\ length' = 0
  /\ spc' = "mkhasher"
  /\ UNCHANGED <<outcome, duration, row>>
  /\ UNCHANGED <<aux, inputs, rvars, hvars>>

\* hasher = new Worker(...) (lines 75-77): a new thread, with the variables
\* of its script as they are before its first statement; it starts on its own.
SupCreateHasher ==
  /\ spc = "mkhasher"
  /\ hpc' = "start"
  /\ hIterations' = 0 /\ hLen' = 0 /\ hashed' = << >>
  /\ digest' = << >> /\ hExit' = -1 /\ hSlices' = 0
  /\ hError' = "none" /\ hSeen' = << >> /\ text' = << >>
  /\ spc' = "mkreader"
  /\ UNCHANGED <<outcome, duration, row>>
  /\ UNCHANGED <<errors, published, rStores>>
  /\ UNCHANGED <<inputs, shared, rvars>>

\* reader = new Worker(...) (lines 79-86): a new thread, with the variables
\* of its script as they are before its first statement and a stream at the
\* start of the file; then the await of line 122.
SupCreateReader ==
  /\ spc = "mkreader"
  /\ rpc' = "next"
  /\ rpos' = 0 /\ rchunk' = << >> /\ rIterations' = 0 /\ waitCount' = 0
  /\ rExpected' = 0 /\ rCause' = "none" /\ rExit' = -1
  /\ published' = << >> /\ rStores' = << >>
  /\ spc' = "await"
  /\ UNCHANGED <<outcome, duration, row>>
  /\ UNCHANGED <<hError, errors, hSeen, text>>
  /\ UNCHANGED <<inputs, shared, hvars>>

\* Both exit promises resolved: Promise.all resolves (lines 89-101, 122-125).
SupAllExited ==
  /\ spc = "await"
  /\ hExit = 0 /\ rExit = 0
  /\ outcome' = "resolved"
  /\ spc' = "finally"
  /\ UNCHANGED <<duration, row>>
  /\ UNCHANGED <<aux, inputs, shared, rvars, hvars>>

\* An exit promise rejected on a non-zero code (lines 92, 99).
SupAgentFailed ==
  /\ spc = "await"
  /\ \E code \in {hExit, rExit} : code > 0
  /\ hError # "raised"
  /\ outcome' = "rejected"
  /\ spc' = "finally"
  /\ UNCHANGED <<duration, row>>
  /\ UNCHANGED <<aux, inputs, shared, rvars, hvars>>

\* The 30 s timer rejects timeoutPromise first (lines 115-119).
SupTimeout ==
  /\ TimerArmed(spc)
  /\ outcome' = "timeout"
  /\ spc' = "finally"
  /\ UNCHANGED <<duration, row>>
  /\ UNCHANGED <<aux, inputs, shared, rvars, hvars>>

\* finally: await hasher.terminate() (lines 135-137).
SupTerminateHasher ==
  /\ spc = "finally"
  /\ hpc' = TerminateWorker(hpc)
  /\ spc' = "finally2"
  /\ UNCHANGED <<hIterations, hLen, hashed, digest, hExit, hSlices>>
  /\ UNCHANGED <<outcome, duration, row>>
  /\ UNCHANGED <<aux, inputs, shared, rvars>>

\* finally: await reader.terminate() (lines 138-140).
SupTerminateReader ==
  /\ spc = "finally2"
  /\ rpc' = TerminateWorker(rpc)
  /\ spc' = "measure"
  /\ UNCHANGED <<rpos, rchunk, rIterations, waitCount, rExpected, rCause, rExit>>
  /\ UNCHANGED <<outcome, duration, row>>
  /\ UNCHANGED <<aux, inputs, shared, hvars>>

\* measurePerformance returns (lines 174-186).
SupMeasure ==
  /\ spc = "measure"
  /\ duration' = MeasuredDuration(outcome)
  /\ errors' = errors \o MeasureReports(outcome)
  /\ spc' = "record"
  /\ UNCHANGED <<outcome, row>>
  /\ UNCHANGED <<hError, published, hSeen, rStores, text>>
  /\ UNCHANGED <<inputs, shared, rvars, hvars>>

\* table.push of the run's row (lines 147-164).
SupRecord ==
  /\ spc = "record"
  /\ row' = TableRow(duration)
  /\ errors' = errors \o RecordReports(TableRow(duration))
  /\ spc' = "end"
  /\ UNCHANGED <<outcome, duration>>
  /\ UNCHANGED <<hError, published, hSeen, rStores, text>>
  /\ UNCHANGED <<inputs, shared, rvars, hvars>>

Supervisor ==
  \/ SupSetup \/ SupCreateHasher \/ SupCreateReader
  \/ SupAllExited \/ SupAgentFailed \/ SupTimeout
  \/ SupTerminateHasher \/ SupTerminateReader \/ SupMeasure \/ SupRecord

Next == Reader \/ Hasher \/ Supervisor

Spec == Init /\ [][Next]_vars

\* The hasher's 'error' event reaches the main thread, which handles events
\* once it awaits: reader.terminate() (lines 104-107).
SupHasherError ==
  /\ spc \in {"await", "finally", "finally2"}
  /\ hError = "raised"
  /\ hError' = "handled"
  /\ rpc' = TerminateWorker(rpc)
  /\ UNCHANGED <<rpos, rchunk, rIterations, waitCount, rExpected, rCause, rExit>>
  /\ UNCHANGED <<errors, published, hSeen, rStores, text>>
  /\ UNCHANGED <<inputs, shared, hvars, svars>>

\* A run of the pipeline for a name the hasher may not know: "md5" is one of
\* the names the project benchmarks elsewhere (part_001 line 219).
AlgorithmNames == {algorithms[1], "md5"}

InitAnyAlgo ==
  algo \in AlgorithmNames /\ maxIter = MAX_ITERATIONS /\ acc = << >> /\ InitRun

NextAnyAlgo == Next \/ SupHasherError

AnyAlgoSpec == InitAnyAlgo /\ [][NextAnyAlgo]_vars

\* The main thread is never blocked: its timer and its continuations run.
SupFairSpec == Init /\ [][Next]_vars /\ WF_vars(Supervisor)


\* The run with the 30 s timer never firing: the main thread only starts the
\* workers, collects their exits and cleans up.
SupStart == SupSetup \/ SupCreateHasher \/ SupCreateReader

SupCollect ==
  \/ SupAllExited \/ SupAgentFailed
  \/ SupTerminateHasher \/ SupTerminateReader \/ SupMeasure \/ SupRecord

NextNoTimer == Reader \/ Hasher \/ SupStart \/ SupCollect

\* Both worker threads and the main thread keep being scheduled; a sleeping
\* worker's slice always ends (its timeout is such a step).
FairSpec ==
  /\ Init /\ [][NextNoTimer]_vars
  /\ WF_vars(Reader) /\ WF_vars(Hasher) /\ WF_vars(SupStart \/ SupCollect)

\* Only the reader thread and the start-up of the run are guaranteed to make
\* progress: the hasher may stall, never start or be terminated at any point.
ReaderFairSpec ==
  /\ Init /\ [][Next]_vars
  /\ WF_vars(Reader) /\ WF_vars(SupStart)

\* The chunks delivered so far that were empty: the iterations begun less the
\* chunks that carried the rpos bytes read.
EmptyChunks == rIterations - ((rpos + chunkSize - 1) \div chunkSize)

\* for await (const chunk of stream) delivering a chunk of length 0 (lines
\* 20-28). An fs read stream delivers none, so this step is no part of Next:
\* it stands for a producer that publishes length 0, the input of the hasher's
\* test len > 0.
ReaderNextEmptyChunk ==
  /\ rpc = "next"
  /\ EmptyChunks < MaxEmptyChunks
  /\ rchunk' = << >>
  /\ rIterations' = rIterations + 1
  /\ waitCount' = 0
  /\ IF ReaderOverCap(rIterations + 1, maxIter)
       THEN rpc' = "eofchk" /\ rCause' = "cap"
       ELSE rpc' = "wchk" /\ rCause' = rCause
  /\ UNCHANGED <<rpos, rExpected, rExit>>
  /\ UNCHANGED <<aux, inputs, shared, hvars, svars>>

NextEmptyChunk == Next \/ ReaderNextEmptyChunk

\* The hasher fed by a producer that may publish a zero-length chunk, before
\* or after the one byte of a file.
InitEmptyChunk == Init /\ Len(file) <= 1 /\ chunkSize = 1

EmptyChunkSpec == InitEmptyChunk /\ [][NextEmptyChunk]_vars

\* The place of the run's algorithm in the list.
AlgoIndex == CHOOSE i \in 1..Len(algorithms) : algorithms[i] = algo

\* for (const algo of algorithms): the body starts again for the next
\* algorithm (lines 41-42), with the workers of the run before stopped and
\* its shared memory still as that run left it.
SupNextRun ==
  /\ spc = "end"
  /\ AlgoIndex < Len(algorithms)
  /\ algo' = algorithms[AlgoIndex + 1]
  /\ spc' = "setup"
  /\ outcome' = "pending" /\ duration' = "none" /\ row' = "none"
  /\ errors' = << >>
  /\ UNCHANGED <<file, chunkSize, maxIter, acc>>
  /\ UNCHANGED <<hError, published, hSeen, rStores, text>>
  /\ UNCHANGED <<shared, rvars, hvars>>

NextRuns == Next \/ SupNextRun

\* All the runs of the for loop, on a file of two chunks.
InitRuns == Init /\ Len(file) = 2 /\ chunkSize = 1

RunsSpec == InitRuns /\ [][NextRuns]_vars

\* A run whose file may have more chunks than MAX_ITERATIONS allows: one-byte
\* chunks of a file of up to one byte more than the cap.
InitCapped ==
  /\ algo = algorithms[1] /\ maxIter = ScaledIterations /\ acc = << >>
  /\ file \in {[i \in 1..n |-> i] : n \in 0..(ScaledIterations + 1)}
  /\ chunkSize = 1
  /\ InitState

CappedSpec == InitCapped /\ [][Next]_vars

\* ------------------------------------------------- rendering of a digest
\* The algorithms whose digest is a number (part_000 lines 20-45).
NumericAlgorithms == {"crc32c", "xxh64", "xxh3-64"}

\* Hex digits of a digest: crc32c is a 32-bit number, xxh64 and xxh3-64 are
\* 64-bit BigInts, sha256 is 32 bytes.
DigestWidth(a) ==
  CASE a = "crc32c" -> 8
    [] a \in {"xxh64", "xxh3-64"} -> 16
    [] OTHER -> 64

\* The digits of radix 16, by value.
HexDigits ==
  <<"0", "1", "2", "3", "4", "5", "6", "7", "8", "9", "a", "b", "c", "d", "e", "f">>

\* The text with one digit per digit value, leading zeros included (what
\* hash.digest('hex') gives for the bytes of a digest).
HexFixed(v) == [i \in 1..Len(v) |-> HexDigits[v[i] + 1]]

\* Number.prototype.toString(16) and BigInt.prototype.toString(16) of a
\* non-negative number given by its digit values, most significant first: the
\* digits from the first that is not zero, "0" for zero.
RECURSIVE ToString16(_)
ToString16(v) ==
  IF Len(v) <= 1 THEN HexFixed(IF Len(v) = 0 THEN <<0>> ELSE v)
  ELSE IF v[1] = 0 THEN ToString16(Tail(v))
  ELSE HexFixed(v)

\* finalDigest() (part_000 lines 19, 24-27, 32-36, 41-45).
FinalDigest(a, v) == IF a \in NumericAlgorithms THEN ToString16(v) ELSE HexFixed(v)

\* The digest values tried for a width w: k leading zero digits, then the
\* digit d repeated, for every k and three digits d.
DigestValues(w) ==
  {[i \in 1..w |-> IF i <= k THEN 0 ELSE d] : k \in 0..w, d \in {1, 10, 15}}

\* The hasher's adapter holds any digest value when finalDigest is called.
InitRender ==
  /\ algo \in NumericAlgorithms
  /\ acc \in DigestValues(DigestWidth(algo))
  /\ maxIter = MAX_ITERATIONS
  /\ InitRun

\* The call of finalDigest() in line 104.
RenderDigest ==
  /\ text = << >>
  /\ text' = <<FinalDigest(algo, acc)>>
  /\ UNCHANGED <<hError, errors, published, hSeen, rStores>>
  /\ UNCHANGED <<inputs, shared, rvars, hvars, svars>>

RenderSpec == InitRender /\ [][RenderDigest]_vars

\* ================================================================ claims
ReaderInBuffer == rpc \in {"copy", "setlen"}
HasherInBuffer == hpc \in {"ldlen", "hash"}

\* C1: when both workers have exited with code 0, the digest the hasher
\* printed is the hash of the whole file (the bytes fed to hashFn, in call
\* order, are the bytes of the file in order). Stated for the runs in which
\* the reader met no read error and no timeout, the claim's plainest case.
C1_DigestOfWholeInput ==
  (hExit = 0 /\ rExit = 0 /\ rCause = "none") => digest = <<file>>

\* C2: the reader is never copying into the buffer or storing length while
\* the hasher is loading length or reading the buffer's bytes.
C2_MutualExclusion == ~(ReaderInBuffer /\ HasherInBuffer)

\* C2 witness: the reader is writing a later chunk into the buffer after the
\* hasher took an earlier one out of it.
C2_Witness == ReaderInBuffer /\ hashed # << >> /\ hpc \notin Stopped

\* C3: every change of status is READY->DATA_AVAILABLE, DATA_AVAILABLE->READY,
\* READY->EOF or DATA_AVAILABLE->EOF; EOF is never left.
C3_StatusTransitions ==
  [][status' # status =>
       <<status, status'>> \in {<<READY, DATA_AVAILABLE>>, <<DATA_AVAILABLE, READY>>,
                                <<READY, EOF>>, <<DATA_AVAILABLE, EOF>>}]_vars

\* C4: with the timer never firing, once the reader has exited the hasher
\* eventually exits too.
C4_HasherReleased == (rpc = "done") ~> (hpc = "done")

\* C5: at the end of the stream the reader stores EOF only over READY.
C5_EofOverReady == [][ReaderEofStore => status = READY]_vars

\* C6: with no activity of the reader at all, the hasher never waits through
\* more timed-out slices than its budget and stays alive: it has exited with
\* code 1, and without a digest.
C6_HasherTimesOut ==
  (rIterations = 0 /\ rpc \in {"unborn", "next"} /\ hSlices > HasherRetry /\ hpc # "htchk")
     => (hExit = 1 /\ digest = << >>)

\* C7: the reader never starts more wait slices in one loop than its budget,
\* and it always terminates, whatever the hasher does or fails to do.
C7_ReaderNeverBlocksForever ==
  [](waitCount <= ReaderMaxWait) /\ <>(rpc \in Stopped)

\* C7 witness: the hasher never ran a step, and the reader has exited after
\* using up its budget on the chunk it could not publish.
C7_Witness ==
  hpc = "start" /\ rpc = "done" /\ rCause = "timeout" /\ waitCount = ReaderMaxWait

\* C8: a reader that ran out of wait budget or whose read failed exits with
\* a non-zero code.
C8_ReaderFailureReported ==
  (rpc = "done" /\ rCause \in {"timeout", "readerr"}) => rExit > 0

\* C9: a digest is printed only when the whole file was delivered by the
\* stream and fed to hashFn.
C9_NoPartialDigest ==
  digest # << >> => (rpos = Len(file) /\ hashed = file)

\* C10: a run whose race was rejected (a worker's non-zero exit, or the
\* timer) is not recorded with the tick of a successful run.
C10_FailureNotRecordedOk ==
  outcome \in {"rejected", "timeout"} => row # "ok"


\* C11: once the cleanup of a run is over (its outcome is about to be
\* returned, or was), neither worker is running, whichever way the race
\* settled.
C11_AgentsStopped ==
  spc \in {"measure", "record", "end"} => (hpc \in Stopped /\ rpc \in Stopped)

\* C11 witness: the hasher's failure settled the race while the reader was
\* still running, and the cleanup stopped the reader.
C11_Witness ==
  spc = "measure" /\ outcome = "rejected" /\ hpc = "done" /\ rpc = "killed"

\* C12: every run ends, whatever the workers do or fail to do.
C12_RunEnds == <>(spc = "end")

\* C12 witness: the timer settled the race and the run ended with both
\* workers terminated, the hasher before it executed a statement.
C12_Witness ==
  spc = "end" /\ outcome = "timeout" /\ hpc = "killed" /\ rpc = "killed"
    /\ hIterations = 0

C14_EmptySource ==
  (Len(file) = 0) =>
     ([](status # DATA_AVAILABLE /\ hashed = << >>) /\ <>(digest = << << >> >>))

\* The lengths of the chunks of n bytes read c at a time: ceil(n/c) of them,
\* all c but a shorter last one when c does not divide n.
ChunkLengths(n, c) ==
  [k \in 1..((n + c - 1) \div c) |-> IF k * c <= n THEN c ELSE n - (k - 1) * c]

\* C15: in a run in which the reader met no failure and both workers exited
\* with code 0, the lengths the hasher saw are those of the file's chunks.
C15_ChunkCycles ==
  (hExit = 0 /\ rExit = 0 /\ rCause = "none")
     => hSeen = ChunkLengths(Len(file), chunkSize)

\* C16: the bytes fed to hashFn are in file order and none is fed twice
\* (byte i of the file holds the value i).
C16_HashedInOrder ==
  \A i, j \in 1..Len(hashed) : i < j => hashed[i] < hashed[j]

\* C16 witness: the hasher has just fed a second one-byte chunk.
C16_Witness == chunkSize = 1 /\ Len(hashed) >= 2 /\ hpc = "release"

\* C17: whenever status is DATA_AVAILABLE, and for as long as the hasher
\* reads what it saw published, length is the size of the published chunk and
\* the buffer starts with its bytes.
C17_PublishedComplete ==
  (status = DATA_AVAILABLE \/ HasherInBuffer)
     => /\ length = Len(published)
        /\ SubSeq(dataView, 1, Len(published)) = published

\* C17 witness: the hasher is about to load the length of a published last
\* chunk that is shorter than the buffer.
C17_Witness ==
  /\ status = DATA_AVAILABLE /\ hpc = "ldlen"
  /\ Len(published) > 0 /\ Len(published) < chunkSize

\* C18: while status is DATA_AVAILABLE, length is within the capacity of the
\* buffer, and hashFn gets exactly the first length bytes of the buffer.
C18_LengthWithinCapacity ==
  /\ [](status = DATA_AVAILABLE => (0 <= length /\ length <= Len(dataView)))
  /\ [][HasherHash => hashed' = hashed \o SubSeq(dataView, 1, length)]_vars

\* C18 witness: the hasher has fed a chunk shorter than the buffer and still
\* holds the buffer.
C18_Witness ==
  /\ status = DATA_AVAILABLE /\ hpc = "release"
  /\ hLen > 0 /\ hLen < chunkSize /\ hashed # << >>

\* C19: finalDigest is called at most once and only after the loop; nothing
\* is fed to hashFn after it; a hasher that left the loop on EOF and exited
\* with code 0 has called it.
C19_FinalizeOnce ==
  /\ [](digest # << >> => (hpc = "done" /\ digest = <<hashed>>))
  /\ [][HasherFinal => digest = << >>]_vars
  /\ [](hpc = "done" /\ hExit = 0 => digest # << >>)

\* C19 witness: the hasher consumed data, saw EOF, printed the digest and
\* exited.
C19_Witness ==
  hpc = "done" /\ hExit = 0 /\ status = EOF /\ hashed # << >> /\ digest = <<hashed>>

\* C20: a run whose race was rejected has reported exactly one error when it
\* ends, the rejection that settled the race; a settled race stays settled.
C20_OneErrorReported ==
  /\ [](spc = "end" /\ outcome \in {"rejected", "timeout"} => errors = <<outcome>>)
  /\ [][outcome # "pending" => outcome' = outcome]_vars

\* C20 witness: the timer settled the race, the hasher then exited with code
\* 1 before it was terminated, and the run ended with the timeout reported.
C20_Witness ==
  spc = "end" /\ outcome = "timeout" /\ hExit = 1 /\ errors = <<"timeout">>

\* C21: the text finalDigest returns for a numeric digest has the full width
\* of the digest (8 hex digits for crc32c, 16 for xxh64 and xxh3-64), one
\* lowercase hex digit per digit of the value, leading zeros included.
C21_FixedWidthHex ==
  text # << >> =>
    /\ Len(text[1]) = DigestWidth(algo)
    /\ text[1] = HexFixed(acc)

\* The number of EOF values among the reader's stores into status.
EofStores == Cardinality({i \in 1..Len(rStores) : rStores[i] = EOF})

\* C22: the reader stores EOF at most once; a reader that has exited stored
\* it exactly once, as its last store; and after its EOF store no step of
\* the reader changes the buffer, length or status.
C22_EofOnce ==
  /\ [](EofStores <= 1)
  /\ [](rpc = "done" => (EofStores = 1 /\ rStores[Len(rStores)] = EOF))
  /\ [][(EofStores = 1 /\ Reader) => UNCHANGED shared]_vars

\* C22 witness: the reader published a chunk, ran out of wait budget on the
\* next, stored EOF from its catch block and exited.
C22_Witness ==
  rpc = "done" /\ rCause = "timeout" /\ rStores = <<DATA_AVAILABLE, EOF>>

\* The number of chunks the reader published.
Publishes == Cardinality({i \in 1..Len(rStores) : rStores[i] = DATA_AVAILABLE})

\* C29: the reader publishes at most MAX_ITERATIONS chunks, and a reader
\* stopped by the cap stores EOF before it exits; the hasher's loop starts at
\* most MAX_ITERATIONS iterations (and so takes at most that many chunks),
\* and leaves for the final digest when the count is reached.
C29_IterationCap ==
  /\ [](Publishes <= maxIter)
  /\ []((rCause = "cap" /\ rpc = "done") => rStores[Len(rStores)] = EOF)
  /\ [](hIterations <= maxIter /\ Len(hSeen) <= maxIter)
  /\ [][(hpc = "loop" /\ hIterations >= maxIter /\ hpc' # hpc) => hpc' \in {"final", "killed"}]_vars

\* C29 witness: the file has more chunks than the cap; the reader published
\* as many as the cap allows, signalled EOF and exited, and the hasher, having
\* taken them, is about to leave its loop on its own cap.
C29_Witness ==
  /\ rCause = "cap" /\ rpc = "done" /\ Publishes = maxIter
  /\ hIterations = maxIter /\ hpc = "loop" /\ Len(hSeen) = maxIter
  /\ Len(file) > maxIter * chunkSize

\* The hasher holds the buffer: from its load of length to its release.
HasherHoldsBuffer == hpc \in {"ldlen", "hash", "release"}

\* C23: while status is DATA_AVAILABLE, and until the hasher that saw it has
\* released the buffer, length and the buffer do not change; they are changed
\* by the reader's copy and length store only, which the reader begins and
\* performs while status is READY.
C23_PublishedUntouched ==
  /\ [][(status = DATA_AVAILABLE \/ HasherHoldsBuffer)
          => UNCHANGED <<length, dataView>>]_vars
  /\ [][(length' # length \/ dataView' # dataView)
          => (rpc \in {"copy", "setlen"} /\ status = READY)]_vars
  /\ [][(rpc' = "copy" /\ rpc # "copy") => status = READY]_vars

\* C23 witness: the hasher has fed a published chunk and not yet released the
\* buffer, while the reader sleeps with the next chunk in hand.
C23_Witness ==
  /\ status = DATA_AVAILABLE /\ hpc = "release" /\ hashed = published
  /\ rpc = "asleep" /\ rchunk # published

\* C25: the reader raises its timeout for a chunk only when status is not
\* READY at the check that ends its wait. Stated for the runs in which the
\* hasher took every chunk published so far (the buffer was freed by the
\* hasher's release, not by its first store).
C25_TimeoutOnlyIfBusy ==
  [][(rCause' = "timeout" /\ rCause # "timeout" /\ Len(hSeen) = Publishes)
       => status # READY]_vars

\* C24: the hasher exits with failure only when the wait it is in has gone
\* through its whole budget of timed-out slices.
C24_FatalAfterBudget ==
  (hpc = "done" /\ hExit = 1) => hSlices >= HasherRetry

\* The reader is in its per-chunk wait loop (lines 29-40).
ReaderInChunkWait == rpc \in {"wchk", "wload", "wait", "asleep", "tchk"}

\* C26: status becomes EOF only by one of the reader's two EOF stores; while
\* the reader is in its per-chunk wait loop status is never EOF, and the
\* reader never takes its 'Hasher signaled EOF prematurely' branch.
C26_EofOnlyByReader ==
  /\ [][(status' = EOF /\ status # EOF)
          => (rpc \in {"eofstore", "catch"} /\ rpc' = "enotify")]_vars
  /\ [](ReaderInChunkWait => status # EOF)
  /\ [](rCause # "premature")

\* C26 witness: after a timed-out slice the reader is at its test for a
\* premature EOF, while the hasher runs and the buffer is still taken.
C26_Witness ==
  rpc = "tchk" /\ status = DATA_AVAILABLE /\ hpc \in {"hash", "release"}

\* C27: the reader falls asleep in Atomics.wait, in either wait loop, only
\* while status is not READY. Stated for the runs in which the hasher took
\* every chunk published so far and no notify of the hasher is on its way
\* (the sleep then lasts the whole slice).
C27_NoSleepOnReady ==
  [][(/\ rpc' \in {"asleep", "easleep"} /\ rpc' # rpc
      /\ Len(hSeen) = Publishes /\ hpc \notin {"inotify", "rnotify"})
       => status # READY]_vars

\* The sum of a sequence of lengths.
RECURSIVE SumSeq(_)
SumSeq(q) == IF q = << >> THEN 0 ELSE Head(q) + SumSeq(Tail(q))

\* C28: a hasher that loads length 0 for a published chunk goes on to its
\* release without a call of hashFn and with the hash state unchanged; the
\* bytes fed by a running hasher, between its calls of hashFn, are as many as
\* the lengths it loaded add up to; the release
\* stores READY and its notify wakes a sleeping reader.
C28_ZeroLengthChunk ==
  /\ [][(hpc = "ldlen" /\ hpc' \notin {"ldlen", "killed"} /\ length = 0)
          => (hpc' = "release" /\ hashed' = hashed)]_vars
  /\ [](hpc \notin {"hash", "killed"} => Len(hashed) = SumSeq(hSeen))
  /\ [][(hpc = "release" /\ hpc' = "rnotify") => status' = READY]_vars
  /\ [][(hpc = "rnotify" /\ hpc' = "loop")
          => rpc' \notin {"asleep", "easleep"}]_vars

\* C28 witness: after a chunk with data the hasher took a chunk of length 0,
\* released the buffer and is back at the head of its loop.
C28_Witness ==
  /\ hpc = "loop" /\ hLen = 0 /\ status = READY
  /\ Len(hSeen) = 2 /\ hSeen[2] = 0 /\ hashed # << >> /\ Len(hashed) = hSeen[1]

\* No worker thread is running.
NoWorkerRuns == hpc \in Stopped \cup {"unborn"} /\ rpc \in Stopped \cup {"unborn"}

\* C30: in every run, when the setup is done and no worker of the run is
\* created yet, status is READY, length is 0 and the buffer is zero-filled,
\* whatever the run before left, and no worker of an earlier run is running
\* that could write to them.
C30_FreshSharedState ==
  /\ [](spc = "mkhasher" =>
          (status = READY /\ length = 0 /\ dataView = Zeros(chunkSize)))
  /\ [](spc \in {"setup", "mkhasher"} => NoWorkerRuns)
  /\ [][(spc = "setup" /\ spc' # spc) => spc' = "mkhasher"]_vars

\* C30 witness: the second run is set up and its workers are not created
\* yet; the reader of the first run had published the file's chunks and
\* stored EOF (the observations of its stores are still those of that run).
C30_Witness ==
  /\ spc = "mkhasher" /\ algo = algorithms[2]
  /\ published = <<file[Len(file)]>>
  /\ rStores = <<DATA_AVAILABLE, DATA_AVAILABLE, EOF>>
  /\ status = READY /\ dataView = Zeros(chunkSize)

\* The reader stored into status and has not notified yet.
ReaderNotifyDue == rpc \in {"pnotify", "enotify"}

\* The hasher stored into status and has not notified yet.
HasherNotifyDue == hpc \in {"inotify", "rnotify"}

\* C31: a worker that stored into status does nothing before its notify, and
\* the notify wakes the peer if it sleeps; so a worker sleeps on a status
\* that is no longer the value it waits on only until the notify of the peer
\* that stored it, which is the peer's next step (a peer terminated by the
\* main thread between its store and its notify excepted).
C31_StoreThenNotify ==
  /\ [][(status' # status /\ spc # "setup")
          => (ReaderNotifyDue' \/ HasherNotifyDue')]_vars
  /\ [][(ReaderNotifyDue /\ rpc' \notin {rpc, "killed"})
          => (hpc # "asleep" \/ hpc' = "hchk")]_vars
  /\ [][(HasherNotifyDue /\ hpc' \notin {hpc, "killed"})
          => (rpc \notin {"asleep", "easleep"} \/ rpc' \in {"wchk", "eofchk"})]_vars
  /\ []((hpc = "asleep" /\ status # READY)
          => (ReaderNotifyDue \/ rpc = "killed"))
  /\ []((rpc \in {"asleep", "easleep"} /\ status # rExpected)
          => (HasherNotifyDue \/ hpc = "killed"))

\* C31 witness: the hasher sleeps on READY, the reader has just published,
\* and the reader's notify is its next step.
C31_Witness ==
  hpc = "asleep" /\ status = DATA_AVAILABLE /\ rpc = "pnotify" /\ hSlices = 0

C33_WritersOfSharedMemory ==
  /\ [][Hasher => UNCHANGED <<length, dataView>>]_vars
  /\ [][(length' # length \/ dataView' # dataView)
          => (rpc \in {"copy", "setlen"} \/ spc = "setup")]_vars
  /\ [][((Supervisor \/ SupNextRun) /\ shared' # shared)
          => (spc = "setup" /\ NoWorkerRuns)]_vars

\* C33 witness: in the second run the hasher has read a chunk the reader
\* wrote, stored READY over the reader's DATA_AVAILABLE, and left length and
\* the buffer as the reader wrote them.
C33_Witness ==
  /\ algo = algorithms[2] /\ hpc = "rnotify" /\ status = READY
  /\ length = Len(published) /\ dataView = published /\ hashed = published
  /\ published # << >>

====
